---- MODULE Spec2Model ----
(***************************************************************************)
(* whispertype: the capture -> segmentation -> transcription pipeline of   *)
(* main.go.  One dictation session is followed from the hotkey press that  *)
(* starts it: the key handler (onReady), the session loop (run), the       *)
(* capture goroutine (recordLoop), the frame channel between them, the     *)
(* transcription backend and the text sink (keyboard.typeText).            *)
(* Times are in milliseconds.                                              *)
(***************************************************************************)
EXTENDS Integers, Sequences, FiniteSets, TLC

VARIABLES
    isActive,        \* onReady: the hotkey toggle
    ctx,             \* the session's context: "none" | "live" | "done"
    device,          \* capture process: for each frame still to come, the byte
                     \* frames it may be
    recPc,           \* recordLoop: "idle" | "start" | "read" | "send" | "exited"
    pending,         \* recordLoop: the chunk it is about to send
    audioChan,       \* buffered channel: the chunks it holds, oldest first
    chanClosed,      \* close(audioChan) has run
    runPc,           \* run: "idle" | "init" | "select" | "read" | "flushWait" |
                     \*      "finalWait" | "returned" | "failed" | "panicked"
    chunk,           \* run: the chunk of the current iteration
    phraseBuffer,    \* run: samples of the phrase being accumulated
    transcriptLines, \* run: the transcript
    silenceStart,    \* run: onset of the current silence run, ZeroTime if none
    runErr,          \* what run returned: "" | an error
    now,             \* the wall clock
    typed,           \* texts handed to keyboard.typeText, in order
    printed,         \* the "Complete Transcript" finalizeTranscript printed
    requests,        \* history: the sample buffers passed to transcribeChunk
    enqueued,        \* history: chunks recordLoop sent on audioChan
    dequeued,        \* history: chunks run received, each with whether it came
                     \* more than silenceDuration into its silence run
    captureFailed,   \* history: recordLoop closed the channel with ctx not done
    lastReply,       \* history: the backend's reply to the latest request
    fnIn,            \* input of the function under test (function specifications)
    fnOut,           \* its result
    wavBuffer,       \* the package-level bytes.Buffer: the bytes it holds
    wavPc,           \* transcribeChunk on its own: "idle" | "write" | "copy"
    ticPc,           \* transcribeInChunks: "idle" | "whole" | "loop" | "wait" | "done"
    chunkStart,      \* transcribeInChunks: the loop variable start
    fullText,        \* transcribeInChunks: the strings.Builder
    windowTexts,     \* history: the texts transcribeChunk returned to it
    loops,           \* the sessions specification: every session's run loop
    cancel           \* onReady: the session its cancel variable cancels, 0 if nil

vars == <<isActive, ctx, device, recPc, pending, audioChan, chanClosed, runPc,
          chunk, phraseBuffer, transcriptLines, silenceStart, runErr, now,
          typed, printed, requests, enqueued, dequeued, captureFailed,
          lastReply, fnIn, fnOut, wavBuffer, wavPc, ticPc, chunkStart, fullText,
          windowTexts, loops, cancel>>

\* the state of the function and the sessions specifications
callVars == <<wavBuffer, wavPc, ticPc, chunkStart, fullText, windowTexts, loops,
              cancel>>

progVars == <<isActive, ctx, device, recPc, pending, audioChan, chanClosed, runPc,
              chunk, phraseBuffer, transcriptLines, silenceStart, runErr, now,
              typed, printed, requests, enqueued, dequeued, captureFailed,
              lastReply>>

(***************************************************************************)
(* Program constants                                                       *)
(***************************************************************************)
silenceDuration == 300
energyThreshold == 80
chanCapacity == 10
ZeroTime == 0
sampleRate == 16000
channels == 1
minChunkDuration == 1000
chunkOverlap == 500

(***************************************************************************)
(* Bounds of the model                                                     *)
(***************************************************************************)
\* samples in one captured frame (the code's frame is sampleRate * 1s long)
FrameSamples == 2
\* frames the capture process delivers in a session
MaxFrames == 3
\* clock ticks the model follows
MaxTicks == 3
\* frames delivered in the queue specification: enough to fill the channel
QueueFrames == 12
\* longest frame given to isSilent in its own specification
MaxProbeLen == 2
\* samples per second in the specification of transcribeInChunks (the code's
\* sampleRate makes a window of 16000 samples)
ChunkRate == 4
\* longest buffer given to transcribeInChunks
MaxBufLen == 10
\* longest sample sequence encoded as WAV
MaxWavLen == 2
\* frame durations given to recordLoop: 0 .. MaxDurationSteps * DurationStep ms
MaxDurationSteps == 50
\* sessions the hotkey can start in the sessions specification, and frames
\* each of them receives
MaxSessions == 2
MaxSessionFrames == 2

ClockStep == silenceDuration
StartTime == ClockStep
MaxTime == ClockStep * MaxTicks

(***************************************************************************)
(* Samples and frames                                                      *)
(***************************************************************************)
\* int16(binary.LittleEndian.Uint16(b)): two bytes to a signed sample
Int16LE(lo, hi) ==
    LET u == lo + 256 * hi
    IN  IF u >= 32768 THEN u - 65536 ELSE u

\* the sample loop of recordLoop: nSamples = len/2, samples[i] from bytes 2i, 2i+1
DecodeSamples(bytes) ==
    [i \in 1..(Len(bytes) \div 2) |-> Int16LE(bytes[2 * i - 1], bytes[2 * i])]

\* chunkBytes of recordLoop, for the model's frame length
chunkBytes == FrameSamples * 2

\* byte pairs the capture process emits: samples 0, 80, -200 and -32768
DevicePairs == { <<0, 0>>, <<80, 0>>, <<56, 255>>, <<0, 128>> }
DeviceFrame(p) == [i \in 1..chunkBytes |-> IF i % 2 = 1 THEN p[1] ELSE p[2]]
DeviceFrames == { DeviceFrame(p) : p \in DevicePairs }

AudioChunk(t, d) == [timestamp |-> t, data |-> d]
ZeroChunk == AudioChunk(ZeroTime, <<>>)

\* -sample on an int16 wraps: -(-32768) = -32768
Neg16(s) == IF s = -32768 THEN -32768 ELSE -s

RECURSIVE SumAbs16(_)
SumAbs16(data) ==
    IF data = <<>> THEN 0
    ELSE (IF Head(data) < 0 THEN Neg16(Head(data)) ELSE Head(data))
         + SumAbs16(Tail(data))

\* Go's integer division truncates toward zero
TruncDiv(a, b) == IF a >= 0 THEN a \div b ELSE -((-a) \div b)

\* isSilent divides by len(data): a zero-length frame is a run-time panic
isSilentPanics(data) == Len(data) = 0
isSilent(data, threshold) == TruncDiv(SumAbs16(data), Len(data)) < threshold

(***************************************************************************)
(* The transcription backend and transcribeChunk's reading of its reply    *)
(***************************************************************************)
Whitespace == { " ", "\n", "\t", "\r" }

RECURSIVE TrimLeft(_)
TrimLeft(s) ==
    IF s # <<>> /\ Head(s) \in Whitespace THEN TrimLeft(Tail(s)) ELSE s

RECURSIVE TrimRight(_)
TrimRight(s) ==
    IF s # <<>> /\ s[Len(s)] \in Whitespace
    THEN TrimRight(SubSeq(s, 1, Len(s) - 1)) ELSE s

\* no trimming at all
TrimSpaceNone(s) == s

\* strings.TrimSpace
TrimSpace(s) == TrimRight(TrimLeft(s))

BlankAudio == << "[", "B", "L", "A", "N", "K", "_", "A", "U", "D", "I", "O", "]" >>

\* texts the backend may put in its JSON reply
ReplyTexts ==
    { << "h", "i" >>,
      << " ", "h", "i", "\n" >>,
      BlankAudio,
      << "\n" >> \o BlankAudio \o << " " >> }

\* what httpClient.Do and the decoding of the body can meet
Replies ==
    { [transport |-> "refused", status |-> 0, json |-> FALSE, text |-> <<>>],
      [transport |-> "timeout", status |-> 0, json |-> FALSE, text |-> <<>>],
      [transport |-> "ok", status |-> 500, json |-> TRUE, text |-> <<>>],
      [transport |-> "ok", status |-> 200, json |-> FALSE, text |-> <<>>] }
    \cup { [transport |-> "ok", status |-> 200, json |-> TRUE, text |-> t] :
             t \in ReplyTexts }

NoReply == [transport |-> "none", status |-> 0, json |-> FALSE, text |-> <<>>]

\* transcribeChunk without its status test
transcribeErrAnyStatus(r) ==
    IF r.transport # "ok" THEN "executing request"
    ELSE IF ~r.json THEN "decoding response"
    ELSE ""

\* the error transcribeChunk returns for a reply, "" for none
transcribeErr(r) ==
    IF r.transport # "ok" THEN "executing request"
    ELSE IF r.status # 200 THEN "bad status"
    ELSE IF ~r.json THEN "decoding response"
    ELSE ""

\* the text transcribeChunk returns for a successful reply
transcribeText(r) ==
    LET text == TrimSpace(r.text)
    IN  IF text = BlankAudio \/ text = << "\n" >> \o BlankAudio THEN <<>> ELSE text

(***************************************************************************)
(* recordLoop's frame size                                                 *)
(***************************************************************************)
\* chunkBytes := int(float64(chunkDuration)/float64(time.Second)) * sampleRate * 2
\* for a chunkDuration of d milliseconds: the conversion to int comes first
recordChunkBytes(d) == TruncDiv(d, 1000) * sampleRate * 2

(***************************************************************************)
(* writeWavToBuffer                                                        *)
(***************************************************************************)
\* binary.Write(buf, binary.LittleEndian, v) for an unsigned v of k bytes
RECURSIVE LittleEndian(_, _)
LittleEndian(v, k) ==
    IF k = 0 THEN <<>> ELSE << v % 256 >> \o LittleEndian(v \div 256, k - 1)

uint16(x) == x % 65536
\* x mod 2^32, taken half by half
uint32(x) == (x % 65536) + 65536 * ((x \div 65536) % 65536)

\* a sample written high byte first
writeSampleBigEndian(sample) ==
    LET u == IF sample < 0 THEN sample + 65536 ELSE sample
    IN  << u \div 256, u % 256 >>

\* binary.Write(dataBuf, binary.LittleEndian, sample) for an int16
writeSample(sample) ==
    LittleEndian(IF sample < 0 THEN sample + 65536 ELSE sample, 2)

RECURSIVE dataBuf(_)
dataBuf(samples) ==
    IF samples = <<>> THEN <<>>
    ELSE writeSample(Head(samples)) \o dataBuf(Tail(samples))

\* "RIFF", "WAVE", "fmt " and "data" as bytes
RiffTag == << 82, 73, 70, 70 >>
WaveTag == << 87, 65, 86, 69 >>
FmtTag == << 102, 109, 116, 32 >>
DataTag == << 100, 97, 116, 97 >>

\* the bytes buf holds after writeWavToBuffer(buf, samples, rate, chans)
writeWavToBuffer(buf, samples, rate, chans) ==
    LET bitsPerSample == 16
        byteRate == uint32(rate * chans * (bitsPerSample \div 8))
        blockAlign == uint16(chans * (bitsPerSample \div 8))
        data == dataBuf(samples)
        dataSize == uint32(Len(data))
    IN  buf \o RiffTag \o LittleEndian(uint32(36 + dataSize), 4) \o WaveTag
            \o FmtTag \o LittleEndian(16, 4) \o LittleEndian(1, 2)
            \o LittleEndian(uint16(chans), 2) \o LittleEndian(uint32(rate), 4)
            \o LittleEndian(uint32(byteRate), 4) \o LittleEndian(blockAlign, 2)
            \o LittleEndian(uint16(bitsPerSample), 2)
            \o DataTag \o LittleEndian(uint32(dataSize), 4) \o data

(***************************************************************************)
(* transcribeInChunks' window sizes, at a sample rate of rate              *)
(***************************************************************************)
\* int(minChunkDuration.Seconds() * float64(sampleRate))
samplesPerChunk(rate) == TruncDiv(minChunkDuration * rate, 1000)
\* int(chunkOverlap.Seconds() * float64(sampleRate))
overlapSamples(rate) == TruncDiv(chunkOverlap * rate, 1000)

(***************************************************************************)
(* Initial state                                                           *)
(***************************************************************************)
\* a run loop that has not been started
NoLoop ==
    [ctx |-> "none", pc |-> "idle", phraseBuffer |-> <<>>,
     silenceStart |-> ZeroTime, transcriptLines |-> <<>>, frames |-> 0,
     stamp |-> ZeroTime, caller |-> "none", body |-> <<>>]

\* nothing has called transcribeChunk or transcribeInChunks, and no session of
\* the sessions specification has been started
InitCalls ==
    /\ wavBuffer = <<>>
    /\ wavPc = "idle"
    /\ ticPc = "idle"
    /\ chunkStart = 0
    /\ fullText = <<>>
    /\ windowTexts = <<>>
    /\ loops = [s \in 1..MaxSessions |-> NoLoop]
    /\ cancel = 0

InitProgram ==
    /\ isActive = FALSE
    /\ ctx = "none"
    /\ recPc = "idle"
    /\ pending = ZeroChunk
    /\ audioChan = <<>>
    /\ chanClosed = FALSE
    /\ runPc = "idle"
    /\ chunk = ZeroChunk
    /\ phraseBuffer = <<>>
    /\ transcriptLines = <<>>
    /\ silenceStart = ZeroTime
    /\ runErr = ""
    /\ now = StartTime
    /\ typed = <<>>
    /\ printed = <<>>
    /\ requests = <<>>
    /\ enqueued = <<>>
    /\ dequeued = <<>>
    /\ captureFailed = FALSE
    /\ lastReply = NoReply

Init ==
    /\ InitProgram
    /\ InitCalls
    /\ device = [i \in 1..MaxFrames |-> DeviceFrames]
    /\ fnIn = <<>>
    /\ fnOut = "none"

(***************************************************************************)
(* The clock                                                               *)
(***************************************************************************)
Tick ==
    /\ now < MaxTime
    /\ now' = now + ClockStep
    /\ UNCHANGED <<isActive, ctx, device, recPc, pending, audioChan, chanClosed,
                   runPc, chunk, phraseBuffer, transcriptLines, silenceStart,
                   runErr, typed, printed, requests, enqueued, dequeued,
                   captureFailed, fnIn, fnOut, callVars, lastReply>>

\* a panic in any goroutine ends the process
Alive == runPc # "panicked"

(***************************************************************************)
(* onReady: the hotkey handler                                             *)
(***************************************************************************)
\* a handler that flips isActive only when it stops a session
KeyPressFlipsOnStop ==
    /\ Alive
    /\ IF ~isActive
       THEN /\ ctx = "none"
            /\ ctx' = "live"
            /\ runPc' = "init"
            /\ UNCHANGED isActive
       ELSE /\ ctx' = "done"
            /\ isActive' = FALSE
            /\ UNCHANGED runPc
    /\ UNCHANGED <<device, recPc, pending, audioChan, chanClosed, chunk,
                   phraseBuffer, transcriptLines, silenceStart, runErr, now,
                   typed, printed, requests, enqueued, dequeued, captureFailed,
                   fnIn, fnOut, callVars, lastReply>>

\* a press starts the session (go run(ctx, keyboard)) or cancels it; the
\* model follows the first session only
KeyPress ==
    /\ Alive
    /\ IF ~isActive
       THEN /\ ctx = "none"
            /\ ctx' = "live"
            /\ runPc' = "init"
       ELSE /\ ctx' = "done"
            /\ UNCHANGED runPc
    /\ isActive' = ~isActive
    /\ UNCHANGED <<device, recPc, pending, audioChan, chanClosed, chunk,
                   phraseBuffer, transcriptLines, silenceStart, runErr, now,
                   typed, printed, requests, enqueued, dequeued, captureFailed,
                   fnIn, fnOut, callVars, lastReply>>

(***************************************************************************)
(* recordLoop                                                              *)
(***************************************************************************)
\* cmd.StdoutPipe / cmd.Start: on failure the channel is closed
recordStart ==
    /\ Alive
    /\ recPc = "start"
    /\ \E ok \in BOOLEAN :
         IF ok
         THEN /\ recPc' = "read"
              /\ UNCHANGED <<chanClosed, captureFailed>>
         ELSE /\ recPc' = "exited"
              /\ chanClosed' = TRUE
              /\ captureFailed' = (captureFailed \/ ctx # "done")
    /\ UNCHANGED <<isActive, ctx, device, pending, audioChan, runPc, chunk,
                   phraseBuffer, transcriptLines, silenceStart, runErr, now,
                   typed, printed, requests, enqueued, dequeued, fnIn, fnOut, callVars,
                   lastReply>>

\* io.ReadFull: a full frame, or an error (the device failed, or the context
\* was cancelled and parec was killed), after which the channel is closed
recordRead ==
    /\ Alive
    /\ recPc = "read"
    /\ \E ok \in BOOLEAN :
         IF ok
         THEN /\ device # <<>>
              /\ \E buffer \in Head(device) :
                   pending' = AudioChunk(now, DecodeSamples(buffer))
              /\ device' = Tail(device)
              /\ recPc' = "send"
              /\ UNCHANGED <<chanClosed, captureFailed>>
         ELSE /\ recPc' = "exited"
              /\ chanClosed' = TRUE
              /\ captureFailed' = (captureFailed \/ ctx # "done")
              /\ UNCHANGED <<device, pending>>
    /\ UNCHANGED <<isActive, ctx, audioChan, runPc, chunk, phraseBuffer,
                   transcriptLines, silenceStart, runErr, now, typed, printed,
                   requests, enqueued, dequeued, fnIn, fnOut, callVars, lastReply>>

\* a send that never blocks
CanSendAlways(q) == TRUE

\* a send on the buffered channel proceeds only while it holds fewer chunks
\* than its capacity
CanSend(q) == Len(q) < chanCapacity

\* audioChan <- AudioChunk{...}
recordSend ==
    /\ Alive
    /\ recPc = "send"
    /\ CanSend(audioChan)
    /\ audioChan' = Append(audioChan, pending)
    /\ enqueued' = Append(enqueued, pending)
    /\ recPc' = "read"
    /\ UNCHANGED <<isActive, ctx, device, pending, chanClosed, runPc, chunk,
                   phraseBuffer, transcriptLines, silenceStart, runErr, now,
                   typed, printed, requests, dequeued, captureFailed,
                   fnIn, fnOut, callVars, lastReply>>

(***************************************************************************)
(* run: the session loop                                                   *)
(***************************************************************************)
\* make(chan AudioChunk, 10); go recordLoop(...)
runStart ==
    /\ Alive
    /\ runPc = "init"
    /\ recPc' = "start"
    /\ runPc' = "select"
    /\ UNCHANGED <<isActive, ctx, device, pending, audioChan, chanClosed, chunk,
                   phraseBuffer, transcriptLines, silenceStart, runErr, now,
                   typed, printed, requests, enqueued, dequeued, captureFailed,
                   fnIn, fnOut, callVars, lastReply>>

\* a finalizeTranscript without its length test
FinalFlushAlways(buffer) == TRUE

\* finalizeTranscript transcribes the buffer only when it holds samples
FinalFlushDue(buffer) == Len(buffer) > 0

\* a loop head that does not look at ctx.Done()
runSelectUnchecked ==
    /\ Alive
    /\ runPc = "select"
    /\ runPc' = "read"
    /\ UNCHANGED <<isActive, ctx, device, recPc, pending, audioChan, chanClosed,
                   chunk, phraseBuffer, transcriptLines, silenceStart, runErr,
                   now, typed, printed, requests, enqueued, dequeued,
                   captureFailed, fnIn, fnOut, callVars, lastReply>>

\* select { case <-ctx.Done(): return finalizeTranscript(...); default: }
runSelect ==
    /\ Alive
    /\ runPc = "select"
    /\ IF ctx = "done"
       THEN IF FinalFlushDue(phraseBuffer)
            THEN /\ requests' = Append(requests, phraseBuffer)
                 /\ runPc' = "finalWait"
                 /\ UNCHANGED printed
            ELSE /\ printed' = Append(printed, transcriptLines)
                 /\ runPc' = "returned"
                 /\ UNCHANGED requests
       ELSE /\ runPc' = "read"
            /\ UNCHANGED <<requests, printed>>
    /\ UNCHANGED <<isActive, ctx, device, recPc, pending, audioChan, chanClosed,
                   chunk, phraseBuffer, transcriptLines, silenceStart, runErr,
                   now, typed, enqueued, dequeued, captureFailed, fnIn, fnOut, callVars,
                   lastReply>>

\* select { case chunk := <-audioChan: ...; default: ... }: a receive on a
\* closed, drained channel yields the zero value at once
readNextChunk(q, closed) ==
    IF q # <<>> THEN [chunk |-> Head(q), ok |-> TRUE]
    ELSE IF closed THEN [chunk |-> ZeroChunk, ok |-> TRUE]
    ELSE [chunk |-> ZeroChunk, ok |-> FALSE]

\* the flush test with >= for >
FlushDueAtThreshold(buffer, start, t) ==
    Len(buffer) > 0 /\ t - start >= silenceDuration

\* the flush test without its length test
FlushDueAnyBuffer(buffer, start, t) == t - start > silenceDuration

\* len(phraseBuffer) > 0 && time.Since(silenceStart) > silenceDuration
FlushDue(buffer, start, t) == Len(buffer) > 0 /\ t - start > silenceDuration

\* if silenceStart.IsZero() { silenceStart = chunk.timestamp }
SilenceOnset(start, c) == IF start = ZeroTime THEN c.timestamp ELSE start

\* the new frame put before the buffered ones
prependSpeech(buffer, data) == data \o buffer

\* phraseBuffer = append(phraseBuffer, chunk.data...)
appendSpeech(buffer, data) == buffer \o data

\* history only: the timestamp of the first frame of the run of silent frames
\* that chunk c extends, given the frames h received before it
RECURSIVE SilenceRunOnset(_, _)
SilenceRunOnset(h, c) ==
    IF h # <<>> /\ isSilent(h[Len(h)].chunk.data, energyThreshold)
    THEN SilenceRunOnset(SubSeq(h, 1, Len(h) - 1), h[Len(h)].chunk)
    ELSE c.timestamp

\* history only: the entry for chunk c, received at time t after the frames h
Received(h, c, t) ==
    [chunk |-> c,
     late |-> /\ isSilent(c.data, energyThreshold)
              /\ t - SilenceRunOnset(h, c) > silenceDuration]

\* one iteration after the select: readNextChunk, isSilent, and the silent or
\* the speech branch up to the call of transcribeChunk
runStep ==
    /\ Alive
    /\ runPc = "read"
    /\ LET r == readNextChunk(audioChan, chanClosed)
           c == r.chunk
           onset == SilenceOnset(silenceStart, c)
       IN  IF ~r.ok
           THEN /\ runPc' = "select"
                /\ UNCHANGED <<audioChan, chunk, dequeued, phraseBuffer,
                               silenceStart, requests>>
           ELSE /\ chunk' = c
                /\ audioChan' = (IF audioChan # <<>> THEN Tail(audioChan) ELSE audioChan)
                /\ dequeued' = (IF audioChan # <<>>
                                THEN Append(dequeued, Received(dequeued, c, now))
                                ELSE dequeued)
                /\ IF isSilentPanics(c.data)
                   THEN /\ runPc' = "panicked"
                        /\ UNCHANGED <<phraseBuffer, silenceStart, requests>>
                   ELSE IF isSilent(c.data, energyThreshold)
                   THEN /\ silenceStart' = onset
                        /\ UNCHANGED phraseBuffer
                        /\ IF FlushDue(phraseBuffer, onset, now)
                           THEN /\ requests' = Append(requests, phraseBuffer)
                                /\ runPc' = "flushWait"
                           ELSE /\ runPc' = "select"
                                /\ UNCHANGED requests
                   ELSE /\ silenceStart' = ZeroTime
                        /\ phraseBuffer' = appendSpeech(phraseBuffer, c.data)
                        /\ runPc' = "select"
                        /\ UNCHANGED requests
    /\ UNCHANGED <<isActive, ctx, device, recPc, pending, chanClosed,
                   transcriptLines, runErr, now, typed, printed, enqueued,
                   captureFailed, fnIn, fnOut, callVars, lastReply>>

\* transcribeChunk returns inside the loop: on an error run returns it,
\* otherwise the text is appended to the transcript and typed, and the phrase
\* buffer and the silence timer are cleared
flushReturn ==
    /\ Alive
    /\ runPc = "flushWait"
    /\ \E r \in Replies :
         /\ lastReply' = r
         /\ IF transcribeErr(r) # ""
            THEN /\ runErr' = "transcription error"
                 /\ runPc' = "failed"
                 /\ UNCHANGED <<transcriptLines, typed, phraseBuffer, silenceStart>>
            ELSE /\ transcriptLines' = Append(transcriptLines, transcribeText(r))
                 /\ typed' = Append(typed, transcribeText(r))
                 /\ phraseBuffer' = <<>>
                 /\ silenceStart' = ZeroTime
                 /\ runPc' = "select"
                 /\ UNCHANGED runErr
    /\ UNCHANGED <<isActive, ctx, device, recPc, pending, audioChan, chanClosed,
                   chunk, now, printed, requests, enqueued, dequeued,
                   captureFailed, fnIn, fnOut, callVars>>

\* transcribeChunk returns inside finalizeTranscript: on an error it is
\* returned, otherwise the text joins the lines, which are printed
finalReturn ==
    /\ Alive
    /\ runPc = "finalWait"
    /\ \E r \in Replies :
         /\ lastReply' = r
         /\ IF transcribeErr(r) # ""
            THEN /\ runErr' = "final transcription error"
                 /\ runPc' = "failed"
                 /\ UNCHANGED <<transcriptLines, printed>>
            ELSE /\ transcriptLines' = Append(transcriptLines, transcribeText(r))
                 /\ printed' = Append(printed, Append(transcriptLines, transcribeText(r)))
                 /\ runPc' = "returned"
                 /\ UNCHANGED runErr
    /\ UNCHANGED <<isActive, ctx, device, recPc, pending, audioChan, chanClosed,
                   chunk, phraseBuffer, silenceStart, now, typed, requests,
                   enqueued, dequeued, captureFailed, fnIn, fnOut, callVars>>

(***************************************************************************)
(* The session                                                             *)
(***************************************************************************)
Next ==
    \/ Tick
    \/ KeyPress
    \/ recordStart
    \/ recordRead
    \/ recordSend
    \/ runStart
    \/ runSelect
    \/ runStep
    \/ flushReturn
    \/ finalReturn

Spec == Init /\ [][Next]_vars

(***************************************************************************)
(* The same session fed by a capture process that delivers QueueFrames     *)
(* frames, speech, speech and silence in turn: enough to fill the channel. *)
(* The clock has one tick left, so no silence run outlasts silenceDuration *)
(* and the loop's own flush (flushReturn) does not arise.                  *)
(***************************************************************************)
QueuePair(i) ==
    IF i % 3 = 1 THEN <<80, 0>> ELSE IF i % 3 = 2 THEN <<56, 255>> ELSE <<0, 0>>

InitQueue ==
    /\ isActive = FALSE
    /\ ctx = "none"
    /\ recPc = "idle"
    /\ pending = ZeroChunk
    /\ audioChan = <<>>
    /\ chanClosed = FALSE
    /\ runPc = "idle"
    /\ chunk = ZeroChunk
    /\ phraseBuffer = <<>>
    /\ transcriptLines = <<>>
    /\ silenceStart = ZeroTime
    /\ runErr = ""
    /\ now = MaxTime - ClockStep
    /\ typed = <<>>
    /\ printed = <<>>
    /\ requests = <<>>
    /\ enqueued = <<>>
    /\ dequeued = <<>>
    /\ captureFailed = FALSE
    /\ lastReply = NoReply
    /\ device = [i \in 1..QueueFrames |-> { DeviceFrame(QueuePair(i)) }]
    /\ InitCalls
    /\ fnIn = <<>>
    /\ fnOut = "none"

NextQueue ==
    \/ Tick
    \/ KeyPress
    \/ recordStart
    \/ recordRead
    \/ recordSend
    \/ runStart
    \/ runSelect
    \/ runStep
    \/ finalReturn

SpecQueue == InitQueue /\ [][NextQueue]_vars

(***************************************************************************)
(* The session of Spec fed by a capture process that delivers more frames  *)
(* than the channel holds, from the start of the clock: the loop can flush *)
(* and fail while the capture goes on.                                     *)
(***************************************************************************)
InitLeak ==
    /\ InitProgram
    /\ InitCalls
    /\ device = [i \in 1..(QueueFrames + 2) |-> { DeviceFrame(QueuePair(i)) }]
    /\ fnIn = <<>>
    /\ fnOut = "none"

SpecLeak == InitLeak /\ [][Next]_vars

(***************************************************************************)
(* isSilent on its own: the frame is drawn from ProbeFrames                *)
(***************************************************************************)
ProbeSamples == { -32768, -32767, -81, -80, -79, 0, 79, 80, 81, 32767 }

RECURSIVE SeqsUpTo(_, _)
SeqsUpTo(S, n) ==
    IF n = 0 THEN { <<>> }
    ELSE LET shorter == SeqsUpTo(S, n - 1)
         IN  shorter \cup { Append(q, x) : q \in shorter, x \in S }

ProbeFrames == SeqsUpTo(ProbeSamples, MaxProbeLen)

InitSilent ==
    /\ InitProgram
    /\ InitCalls
    /\ device = <<>>
    /\ fnIn \in ProbeFrames
    /\ fnOut = "none"

\* the call isSilent(chunk.data, energyThreshold) of run
callIsSilent ==
    /\ fnOut = "none"
    /\ fnOut' = (IF isSilentPanics(fnIn) THEN "panic"
                 ELSE IF isSilent(fnIn, energyThreshold) THEN "silent" ELSE "speech")
    /\ UNCHANGED <<fnIn, progVars, callVars>>

NextSilent == callIsSilent

SpecSilent == InitSilent /\ [][NextSilent]_vars

(***************************************************************************)
(* The rest of the state while a function is followed on its own           *)
(***************************************************************************)
idleSession == <<isActive, ctx, device, recPc, pending, audioChan, chanClosed,
                 runPc, chunk, phraseBuffer, transcriptLines, silenceStart,
                 runErr, now, typed, printed, enqueued, dequeued,
                 captureFailed>>

(***************************************************************************)
(* recordLoop's frame size on its own: chunkDuration is drawn from         *)
(* 0, 100, ... milliseconds                                                *)
(***************************************************************************)
FrameDurations == { 100 * i : i \in 0..MaxDurationSteps }

InitFrame ==
    /\ InitProgram
    /\ InitCalls
    /\ device = <<>>
    /\ fnIn \in FrameDurations
    /\ fnOut = -1

\* the first statement of recordLoop(ctx, chunkDuration, audioChan)
callChunkBytes ==
    /\ fnOut = -1
    /\ fnOut' = recordChunkBytes(fnIn)
    /\ UNCHANGED <<fnIn, progVars, callVars>>

NextFrame == callChunkBytes

SpecFrame == InitFrame /\ [][NextFrame]_vars

(***************************************************************************)
(* transcribeChunk up to the request body, called again and again by one   *)
(* goroutine: fnIn is the samples, fnOut the bytes of the "audio.wav" part *)
(***************************************************************************)
WavSamples == { -32768, -2, 0, 256, 32767 }
WavInputs == SeqsUpTo(WavSamples, MaxWavLen)

InitWav ==
    /\ InitProgram
    /\ InitCalls
    /\ device = <<>>
    /\ fnIn = <<>>
    /\ fnOut = <<>>

\* transcribeChunk(samples) is entered: wavBuffer.Reset()
wavReset ==
    /\ wavPc = "idle"
    /\ \E samples \in WavInputs : fnIn' = samples
    /\ wavBuffer' = <<>>
    /\ wavPc' = "write"
    /\ UNCHANGED <<fnOut, progVars, ticPc, chunkStart, fullText, windowTexts,
                   loops, cancel>>

\* writeWavToBuffer(&wavBuffer, samples, sampleRate, channels)
wavWrite ==
    /\ wavPc = "write"
    /\ wavBuffer' = writeWavToBuffer(wavBuffer, fnIn, sampleRate, channels)
    /\ wavPc' = "copy"
    /\ UNCHANGED <<fnIn, fnOut, progVars, ticPc, chunkStart, fullText,
                   windowTexts, loops, cancel>>

\* io.Copy(part, &wavBuffer): the part receives the bytes, the buffer is
\* drained
wavCopy ==
    /\ wavPc = "copy"
    /\ fnOut' = wavBuffer
    /\ wavBuffer' = <<>>
    /\ wavPc' = "idle"
    /\ UNCHANGED <<fnIn, progVars, ticPc, chunkStart, fullText, windowTexts,
                   loops, cancel>>

NextWav ==
    \/ wavReset
    \/ wavWrite
    \/ wavCopy

SpecWav == InitWav /\ [][NextWav]_vars

(***************************************************************************)
(* transcribeInChunks on its own, at ChunkRate samples per second: fnIn is *)
(* the samples, numbered by position, requests the windows handed to       *)
(* transcribeChunk and fnOut what the function returns                     *)
(***************************************************************************)
InitChunks ==
    /\ InitProgram
    /\ InitCalls
    /\ device = <<>>
    /\ fnIn \in { [i \in 1..n |-> i] : n \in 0..MaxBufLen }
    /\ fnOut = [text |-> <<>>, err |-> ""]

\* entry: a buffer of at most samplesPerChunk samples goes to transcribeChunk
\* whole, a longer one enters the loop with start = 0
chunksBegin ==
    /\ ticPc = "idle"
    /\ IF Len(fnIn) <= samplesPerChunk(ChunkRate)
       THEN /\ requests' = Append(requests, fnIn)
            /\ ticPc' = "whole"
       ELSE /\ ticPc' = "loop"
            /\ UNCHANGED requests
    /\ chunkStart' = 0
    /\ UNCHANGED <<idleSession, lastReply, fnIn, fnOut, wavBuffer, wavPc,
                   fullText, windowTexts, loops, cancel>>

\* return transcribeChunk(samples)
chunksWhole ==
    /\ ticPc = "whole"
    /\ \E r \in Replies :
         /\ lastReply' = r
         /\ fnOut' = IF transcribeErr(r) # ""
                     THEN [text |-> <<>>, err |-> transcribeErr(r)]
                     ELSE [text |-> transcribeText(r), err |-> ""]
    /\ ticPc' = "done"
    /\ UNCHANGED <<idleSession, requests, fnIn, wavBuffer, wavPc, chunkStart,
                   fullText, windowTexts, loops, cancel>>

\* the loop test start < len(samples), the window samples[start:end] with end
\* clipped to the length, and the call of transcribeChunk; after the loop
\* fullText.String() is returned
chunksNext ==
    /\ ticPc = "loop"
    /\ IF chunkStart < Len(fnIn)
       THEN LET reach == chunkStart + samplesPerChunk(ChunkRate)
                end == IF reach > Len(fnIn) THEN Len(fnIn) ELSE reach
            IN  /\ requests' = Append(requests, SubSeq(fnIn, chunkStart + 1, end))
                /\ ticPc' = "wait"
                /\ UNCHANGED fnOut
       ELSE /\ fnOut' = [text |-> fullText, err |-> ""]
            /\ ticPc' = "done"
            /\ UNCHANGED requests
    /\ UNCHANGED <<idleSession, lastReply, fnIn, wavBuffer, wavPc, chunkStart,
                   fullText, windowTexts, loops, cancel>>

\* transcribeChunk returns in the loop: an error is returned, a text is
\* written to fullText followed by " " and start advances by
\* samplesPerChunk - overlapSamples
chunksReply ==
    /\ ticPc = "wait"
    /\ \E r \in Replies :
         /\ lastReply' = r
         /\ IF transcribeErr(r) # ""
            THEN /\ fnOut' = [text |-> <<>>, err |-> transcribeErr(r)]
                 /\ ticPc' = "done"
                 /\ UNCHANGED <<fullText, windowTexts, chunkStart>>
            ELSE /\ fullText' = fullText \o transcribeText(r) \o << " " >>
                 /\ windowTexts' = Append(windowTexts, transcribeText(r))
                 /\ chunkStart' = chunkStart + (samplesPerChunk(ChunkRate)
                                                - overlapSamples(ChunkRate))
                 /\ ticPc' = "loop"
                 /\ UNCHANGED fnOut
    /\ UNCHANGED <<idleSession, requests, fnIn, wavBuffer, wavPc, loops, cancel>>

NextChunks ==
    \/ chunksBegin
    \/ chunksWhole
    \/ chunksNext
    \/ chunksReply

SpecChunks == InitChunks /\ [][NextChunks]_vars

(***************************************************************************)
(* Several sessions: the hotkey handler starts a new run loop at every     *)
(* other press, and every loop calls transcribeChunk, which works in the   *)
(* one package-level wavBuffer.  loops[s] holds the state of the run loop  *)
(* of session s: its context, its position ("reset", "write" and "copy"    *)
(* are transcribeChunk building the request, "wait" the request in         *)
(* flight), its phraseBuffer, silenceStart and transcriptLines, the        *)
(* number and the latest timestamp of the frames it has received, who      *)
(* called transcribeChunk ("run" or "final") and the request body.  The    *)
(* capture side is the environment of a loop: a receive finds no chunk, or *)
(* a frame captured at some time up to now.                                *)
(***************************************************************************)
Sessions == 1..MaxSessions

sessionsRest == <<ctx, device, recPc, pending, audioChan, chanClosed, runPc,
                  chunk, phraseBuffer, transcriptLines, silenceStart, runErr,
                  typed, printed, requests, enqueued, dequeued, captureFailed,
                  lastReply, fnIn, fnOut, wavPc, ticPc, chunkStart, fullText,
                  windowTexts>>

InitSessions ==
    /\ InitProgram
    /\ InitCalls
    /\ device = <<>>
    /\ fnIn = <<>>
    /\ fnOut = "none"

\* the handler: with isActive false it makes a context, stores its cancel
\* function and starts go run(ctx, keyboard); with isActive true it calls the
\* stored cancel function; then it flips isActive
KeyPressSessions ==
    /\ IF ~isActive
       THEN LET s == Cardinality({ x \in Sessions : loops[x].ctx # "none" }) + 1
            IN  /\ s \in Sessions
                /\ loops' = [loops EXCEPT ![s] = [@ EXCEPT !.ctx = "live",
                                                          !.pc = "init"]]
                /\ cancel' = s
       ELSE /\ loops' = [loops EXCEPT ![cancel] = [@ EXCEPT !.ctx = "done"]]
            /\ UNCHANGED cancel
    /\ isActive' = ~isActive
    /\ UNCHANGED <<now, wavBuffer, sessionsRest>>

\* run is entered: the channel is made and recordLoop started
loopStart(s) ==
    /\ loops[s].pc = "init"
    /\ loops' = [loops EXCEPT ![s] = [@ EXCEPT !.pc = "select"]]
    /\ UNCHANGED <<isActive, now, wavBuffer, cancel, sessionsRest>>

\* select on ctx.Done(): finalizeTranscript, which calls transcribeChunk when
\* the buffer holds samples, or the next iteration
loopSelect(s) ==
    /\ loops[s].pc = "select"
    /\ loops' = [loops EXCEPT ![s] =
                   IF @.ctx = "done"
                   THEN IF FinalFlushDue(@.phraseBuffer)
                        THEN [@ EXCEPT !.pc = "reset", !.caller = "final"]
                        ELSE [@ EXCEPT !.pc = "returned"]
                   ELSE [@ EXCEPT !.pc = "read"]]
    /\ UNCHANGED <<isActive, now, wavBuffer, cancel, sessionsRest>>

\* times at which a frame received at time t, after one stamped from, was
\* captured
CaptureTimes(from, t) ==
    { ClockStep * k : k \in 1..MaxTicks } \cap { x \in 0..t : x >= from }

\* the rest of the iteration: no chunk, or a chunk that is silent (and may
\* make the flush due) or speech
loopStep(s) ==
    /\ loops[s].pc = "read"
    /\ \/ loops' = [loops EXCEPT ![s] = [@ EXCEPT !.pc = "select"]]
       \/ /\ loops[s].frames < MaxSessionFrames
          /\ \E buffer \in DeviceFrames, t \in CaptureTimes(loops[s].stamp, now) :
               LET l == [loops[s] EXCEPT !.frames = @ + 1, !.stamp = t]
                   c == AudioChunk(t, DecodeSamples(buffer))
                   onset == SilenceOnset(l.silenceStart, c)
               IN  loops' = [loops EXCEPT ![s] =
                       IF isSilent(c.data, energyThreshold)
                       THEN IF FlushDue(l.phraseBuffer, onset, now)
                            THEN [l EXCEPT !.silenceStart = onset,
                                           !.pc = "reset", !.caller = "run"]
                            ELSE [l EXCEPT !.silenceStart = onset,
                                           !.pc = "select"]
                       ELSE [l EXCEPT !.silenceStart = ZeroTime,
                                      !.phraseBuffer = appendSpeech(@, c.data),
                                      !.pc = "select"]]
    /\ UNCHANGED <<isActive, now, wavBuffer, cancel, sessionsRest>>

\* transcribeChunk: wavBuffer.Reset()
loopReset(s) ==
    /\ loops[s].pc = "reset"
    /\ wavBuffer' = <<>>
    /\ loops' = [loops EXCEPT ![s] = [@ EXCEPT !.pc = "write"]]
    /\ UNCHANGED <<isActive, now, cancel, sessionsRest>>

\* transcribeChunk: writeWavToBuffer(&wavBuffer, samples, sampleRate, channels)
loopWrite(s) ==
    /\ loops[s].pc = "write"
    /\ wavBuffer' = writeWavToBuffer(wavBuffer, loops[s].phraseBuffer,
                                     sampleRate, channels)
    /\ loops' = [loops EXCEPT ![s] = [@ EXCEPT !.pc = "copy"]]
    /\ UNCHANGED <<isActive, now, cancel, sessionsRest>>

\* transcribeChunk: io.Copy(part, &wavBuffer) into the body b, and the request
\* is sent
loopCopy(s) ==
    /\ loops[s].pc = "copy"
    /\ loops' = [loops EXCEPT ![s] = [@ EXCEPT !.body = wavBuffer, !.pc = "wait"]]
    /\ wavBuffer' = <<>>
    /\ UNCHANGED <<isActive, now, cancel, sessionsRest>>

\* transcribeChunk returns to run or to finalizeTranscript
loopReturn(s) ==
    /\ loops[s].pc = "wait"
    /\ \E r \in Replies :
         loops' = [loops EXCEPT ![s] =
             IF transcribeErr(r) # "" THEN [@ EXCEPT !.pc = "failed"]
             ELSE IF @.caller = "run"
             THEN [@ EXCEPT !.transcriptLines = Append(@, transcribeText(r)),
                            !.phraseBuffer = <<>>,
                            !.silenceStart = ZeroTime,
                            !.pc = "select"]
             ELSE [@ EXCEPT !.transcriptLines = Append(@, transcribeText(r)),
                            !.pc = "returned"]]
    /\ UNCHANGED <<isActive, now, wavBuffer, cancel, sessionsRest>>

NextSessions ==
    \/ Tick
    \/ KeyPressSessions
    \/ \E s \in Sessions : loopStart(s)
    \/ \E s \in Sessions : loopSelect(s)
    \/ \E s \in Sessions : loopStep(s)
    \/ \E s \in Sessions : loopReset(s)
    \/ \E s \in Sessions : loopWrite(s)
    \/ \E s \in Sessions : loopCopy(s)
    \/ \E s \in Sessions : loopReturn(s)

SpecSessions == InitSessions /\ [][NextSessions]_vars

(***************************************************************************)
(* Notions of the specification, stated apart from the code above          *)
(***************************************************************************)
AbsInt(x) == IF x < 0 THEN -x ELSE x

RECURSIVE SumAbs(_)
SumAbs(data) == IF data = <<>> THEN 0 ELSE AbsInt(Head(data)) + SumAbs(Tail(data))

\* mean(|sample|) < threshold, for a frame with samples
MeanAbsBelow(data, threshold) == SumAbs(data) < threshold * Len(data)

\* a frame the loop classifies Silent, Speech
SilentFrame(data) == data # <<>> /\ isSilent(data, energyThreshold)
SpeechFrame(data) == data # <<>> /\ ~isSilent(data, energyThreshold)

\* the run loop has ended: it returned, returned an error, or the process died
RunOver == runPc \in { "returned", "failed", "panicked" }

(***************************************************************************)
(* C1: final flush at cancellation                                         *)
(***************************************************************************)
\* the step in which the loop finds its context cancelled
ObservesCancel == runPc = "select" /\ ctx = "done" /\ runPc' # runPc

\* C1: when the loop finds the session cancelled it calls transcribeChunk
\* exactly once, with exactly the samples then in phraseBuffer, if the buffer
\* holds samples, whatever silenceStart is; with an empty buffer it makes no
\* request; and from then on no further request is made.
C1_FinalFlush ==
    [][ /\ ObservesCancel =>
             IF phraseBuffer # <<>>
             THEN requests' = Append(requests, phraseBuffer) /\ runPc' = "finalWait"
             ELSE requests' = requests /\ runPc' = "returned"
        /\ runPc \in { "finalWait", "returned" } => requests' = requests
      ]_vars

\* a final flush of a non-empty buffer issued with no silence pending
C1_Witness ==
    /\ runPc = "finalWait"
    /\ ctx = "done"
    /\ phraseBuffer # <<>>
    /\ silenceStart = ZeroTime
    /\ requests = << phraseBuffer >>

(***************************************************************************)
(* C2: when the loop flushes                                               *)
(***************************************************************************)
\* C2: while the session is not cancelled, every step that calls
\* transcribeChunk is the processing of a frame classified Silent, with a
\* non-empty phraseBuffer (the samples sent) and with more than
\* silenceDuration elapsed since silenceStart.
C2_FlushOnlyAfterSilence ==
    [][ (requests' # requests /\ ctx # "done") =>
          /\ dequeued' # dequeued
          /\ SilentFrame(chunk'.data)
          /\ phraseBuffer # <<>>
          /\ requests' = Append(requests, phraseBuffer)
          /\ silenceStart' # ZeroTime
          /\ now - silenceStart' > silenceDuration
      ]_vars

\* a flush issued inside the loop of an uncancelled session
C2_Witness ==
    /\ runPc = "flushWait"
    /\ ctx = "live"
    /\ SilentFrame(chunk.data)
    /\ now - silenceStart > silenceDuration

(***************************************************************************)
(* C3: speech followed by a long enough silence                            *)
(***************************************************************************)
RECURSIVE ConcatData(_)
ConcatData(h) ==
    IF h = <<>> THEN <<>> ELSE Head(h).chunk.data \o ConcatData(Tail(h))

\* the frames received so far are k speech frames followed by silent frames
SpeechThenSilence(h, k) ==
    /\ \A i \in 1..k : SpeechFrame(h[i].chunk.data)
    /\ \A i \in (k + 1)..Len(h) : SilentFrame(h[i].chunk.data)

\* a silent frame was processed more than silenceDuration after the onset of
\* the silence run (the timestamp of its first frame)
SilenceOutlasted(h, k) == \E i \in (k + 1)..Len(h) : h[i].late

\* C3: once the loop has received speech frames followed by silent frames
\* whose silence run outlasted silenceDuration, exactly one request has been
\* made, its samples are the speech frames' samples in arrival order, and
\* once that request has returned phraseBuffer is empty; the step in which it
\* returns clears phraseBuffer and silenceStart.
C3_OneFlushOfTheSpeech ==
    /\ [](\A k \in 1..(Len(dequeued) - 1) :
            (SpeechThenSilence(dequeued, k) /\ SilenceOutlasted(dequeued, k)) =>
               /\ requests = << ConcatData(SubSeq(dequeued, 1, k)) >>
               /\ runPc \notin { "flushWait", "failed" } => phraseBuffer = <<>>)
    /\ [][ (runPc = "flushWait" /\ runPc' = "select") =>
              (phraseBuffer' = <<>> /\ silenceStart' = ZeroTime) ]_vars

\* two different speech frames and a long silence, flushed and answered
C3_Witness ==
    /\ Len(dequeued) = 3
    /\ SpeechThenSilence(dequeued, 2)
    /\ SilenceOutlasted(dequeued, 2)
    /\ dequeued[1].chunk.data # dequeued[2].chunk.data
    /\ requests = << dequeued[1].chunk.data \o dequeued[2].chunk.data >>
    /\ runPc = "select"
    /\ phraseBuffer = <<>>
    /\ silenceStart = ZeroTime

(***************************************************************************)
(* C4: what reaches the text sink                                          *)
(***************************************************************************)
\* C4: the texts given to keyboard.typeText are the segments appended to the
\* transcript, in the same order, the final flush's segment included.
C4_TypedIsTranscript == typed = transcriptLines

(***************************************************************************)
(* C5: the frame channel                                                   *)
(***************************************************************************)
ChunksOf(h) == [i \in 1..Len(h) |-> h[i].chunk]

\* C5: the channel never holds more than chanCapacity chunks; while it holds
\* chanCapacity no chunk is enqueued; and the chunks received, followed by the
\* chunks still in the channel, are exactly the chunks sent, in order: the
\* received sequence is a prefix of the sent one, nothing dropped or reordered.
C5_BoundedFifo ==
    /\ [](/\ Len(audioChan) <= chanCapacity
          /\ ChunksOf(dequeued) \o audioChan = enqueued)
    /\ [][ Len(audioChan) = chanCapacity =>
              (enqueued' = enqueued /\ Len(audioChan') <= chanCapacity) ]_vars

\* the channel is full, the producer holds the next chunk, and the consumer
\* has already received one
C5_Witness ==
    /\ Len(audioChan) = chanCapacity
    /\ recPc = "send"
    /\ pending \notin { audioChan[i] : i \in 1..Len(audioChan) }
    /\ dequeued # <<>>
    /\ ctx = "live"

(***************************************************************************)
(* C6: a failed transcription request                                      *)
(***************************************************************************)
\* a reply that is a network failure, a timeout, a status other than 200 or
\* a body that does not decode
FailedReply(r) == r.transport # "ok" \/ r.status # 200 \/ ~r.json

\* the step in which a pending request returns
ReplyArrives == runPc \in { "flushWait", "finalWait" } /\ runPc' # runPc

\* C6: when the reply to a request is a failure, run returns an error in
\* that step, the transcript and the typed texts are as they were, and after
\* the error nothing more is requested, appended or typed.
C6_FailureEndsSession ==
    [][ /\ (ReplyArrives /\ FailedReply(lastReply')) =>
             /\ runPc' = "failed"
             /\ runErr' # ""
             /\ transcriptLines' = transcriptLines
             /\ typed' = typed
             /\ requests' = requests
        /\ runPc = "failed" =>
             /\ runPc' = "failed"
             /\ transcriptLines' = transcriptLines
             /\ typed' = typed
             /\ requests' = requests
      ]_vars

\* a second request answered with status 500 after a first phrase was
\* transcribed
C6_Witness ==
    /\ runPc = "failed"
    /\ lastReply.transport = "ok"
    /\ lastReply.status # 200
    /\ Len(requests) = 2
    /\ Len(transcriptLines) = 1

(***************************************************************************)
(* C7: capture failure                                                     *)
(***************************************************************************)
\* C7: after the capture fails in an uncancelled session the consumer meets
\* no fault.
C7_NoFaultAfterCaptureFailure ==
    (captureFailed /\ ctx # "done") => runPc # "panicked"

(***************************************************************************)
(* C8: isSilent                                                            *)
(***************************************************************************)
\* C8: for a non-empty frame isSilent is true exactly when the mean of the
\* absolute sample values is below the threshold.
C8_SilentIffMeanBelow ==
    (fnOut # "none" /\ fnIn # <<>>) =>
        /\ fnOut \in { "silent", "speech" }
        /\ fnOut = "silent" <=> MeanAbsBelow(fnIn, energyThreshold)

(***************************************************************************)
(* C9: the blank-audio sentinel                                            *)
(***************************************************************************)
\* reply texts that are [BLANK_AUDIO] once surrounding whitespace is removed
BlankBodies == { BlankAudio, << "\n" >> \o BlankAudio \o << " " >> }

\* C9: when the reply to the loop's request is a success whose text trims to
\* [BLANK_AUDIO], the flush completes as usual with the empty text: an empty
\* segment is appended, the empty text is typed, phraseBuffer and silenceStart
\* are cleared, no error is returned and the loop goes on.
C9_BlankAudioFlush ==
    [][ (runPc = "flushWait" /\ runPc' # runPc /\ ~FailedReply(lastReply')
            /\ lastReply'.text \in BlankBodies) =>
          /\ transcriptLines' = Append(transcriptLines, <<>>)
          /\ typed' = Append(typed, <<>>)
          /\ phraseBuffer' = <<>>
          /\ silenceStart' = ZeroTime
          /\ runErr' = ""
          /\ runPc' = "select"
      ]_vars

\* a padded sentinel answered the loop's request and the empty text was typed
C9_Witness ==
    /\ lastReply.text = << "\n" >> \o BlankAudio \o << " " >>
    /\ typed = << <<>> >>
    /\ transcriptLines = << <<>> >>
    /\ phraseBuffer = <<>>
    /\ runPc = "select"

(***************************************************************************)
(* C10: a session of silence                                               *)
(***************************************************************************)
\* C10: as long as every frame the loop has received is silent, no request
\* has been made and the transcript is empty, also once the loop has ended.
C10_SilenceNeverFlushes ==
    (\A i \in 1..Len(dequeued) : SilentFrame(dequeued[i].chunk.data)) =>
        /\ requests = <<>>
        /\ transcriptLines = <<>>
        /\ typed = <<>>
        /\ \A i \in 1..Len(printed) : printed[i] = <<>>

\* a cancelled session that received silent frames over more than
\* silenceDuration and returned
C10_Witness ==
    /\ Len(dequeued) >= 2
    /\ \A i \in 1..Len(dequeued) : SilentFrame(dequeued[i].chunk.data)
    /\ dequeued[Len(dequeued)].late
    /\ runPc = "returned"
    /\ printed = << <<>> >>

(***************************************************************************)
(* C11: the windows of transcribeInChunks                                  *)
(***************************************************************************)
WindowSize == samplesPerChunk(ChunkRate)
Overlap == overlapSamples(ChunkRate)
CeilDiv(a, b) == (a + b - 1) \div b

\* positions two windows have in common (the samples are numbered by position)
Shared(w1, w2) ==
    Cardinality({ w1[i] : i \in 1..Len(w1) } \cap { w2[i] : i \in 1..Len(w2) })

\* the call returned a text for a buffer longer than one window
ChunkedCallDone == ticPc = "done" /\ fnOut.err = "" /\ Len(fnIn) > WindowSize

\* C11: for a buffer of length L > W the call transcribes exactly
\* ceil((L-O)/(W-O)) windows, each of at most W samples, window k starting at
\* position k*(W-O), and consecutive windows share exactly O samples except the
\* pair that ends in the last window.
C11_WindowsOfTheBuffer ==
    ChunkedCallDone =>
        LET n == Len(requests)
        IN  /\ n = CeilDiv(Len(fnIn) - Overlap, WindowSize - Overlap)
            /\ \A k \in 1..n :
                 /\ Len(requests[k]) <= WindowSize
                 /\ requests[k] # <<>>
                 /\ requests[k][1] = (k - 1) * (WindowSize - Overlap) + 1
            /\ \A k \in 1..(n - 2) : Shared(requests[k], requests[k + 1]) = Overlap

(***************************************************************************)
(* C12: the text of transcribeInChunks                                     *)
(***************************************************************************)
RECURSIVE JoinWithSpace(_)
JoinWithSpace(texts) ==
    IF texts = <<>> THEN <<>>
    ELSE IF Len(texts) = 1 THEN texts[1]
    ELSE texts[1] \o << " " >> \o JoinWithSpace(Tail(texts))

\* C12: the text returned for a buffer split into n windows is the n window
\* texts in window order with one space between consecutive texts, none before
\* the first and none after the last.
C12_TextsJoinedBySpace ==
    ChunkedCallDone => fnOut.text = JoinWithSpace(windowTexts)

(***************************************************************************)
(* C13: the WAV payload of a request                                       *)
(***************************************************************************)
\* the unsigned little-endian number in the k bytes of p from position from
RECURSIVE ReadLE(_, _, _)
ReadLE(p, from, k) ==
    IF k = 0 THEN 0 ELSE p[from] + 256 * ReadLE(p, from + 1, k - 1)

\* p is the canonical WAV file of the samples: 44 header bytes declaring PCM,
\* one channel, 16 bits, sampleRate and a data size of two bytes per sample,
\* then the samples, which decode to the same values in the same order
CanonicalWav(p, samples) ==
    /\ Len(p) = 44 + 2 * Len(samples)
    /\ SubSeq(p, 1, 4) = << 82, 73, 70, 70 >>
    /\ SubSeq(p, 9, 16) = << 87, 65, 86, 69, 102, 109, 116, 32 >>
    /\ ReadLE(p, 21, 2) = 1
    /\ ReadLE(p, 23, 2) = 1
    /\ ReadLE(p, 25, 4) = 16000
    /\ ReadLE(p, 35, 2) = 16
    /\ SubSeq(p, 37, 40) = << 100, 97, 116, 97 >>
    /\ ReadLE(p, 41, 4) = 2 * Len(samples)
    /\ DecodeSamples(SubSeq(p, 45, Len(p))) = samples

\* C13: the bytes transcribeChunk builds in wavBuffer and copies into the
\* request are the canonical WAV file of the samples it was given, in every
\* call, the first and the later ones alike.
C13_PayloadIsCanonicalWav ==
    /\ wavPc = "copy" => CanonicalWav(wavBuffer, fnIn)
    /\ (wavPc = "idle" /\ fnOut # <<>>) => CanonicalWav(fnOut, fnIn)

\* a later call has built the payload of the longest sample sequence while the
\* payload of an earlier call, of another length, is still at hand
C13_Witness ==
    /\ wavPc = "copy"
    /\ Len(fnIn) = MaxWavLen
    /\ -32768 \in { fnIn[i] : i \in 1..Len(fnIn) }
    /\ fnOut # <<>>
    /\ Len(fnOut) # Len(wavBuffer)

(***************************************************************************)
(* C14: a cancelled session reports its transcript                         *)
(***************************************************************************)
\* C14: a cancelled session whose capture worked until the cancellation and
\* whose requests have all been answered with a text ends its loop by
\* returning normally, having printed the transcript, which holds one segment
\* for each flush; it never ends in any other way.
C14_CancelledLoopReports ==
    (ctx = "done" /\ RunOver /\ ~captureFailed
       /\ (lastReply = NoReply \/ ~FailedReply(lastReply))) =>
        /\ runPc = "returned"
        /\ printed = << transcriptLines >>
        /\ Len(transcriptLines) = Len(requests)

(***************************************************************************)
(* C15: the producer after cancellation                                    *)
(***************************************************************************)
\* C15: once the session is cancelled and the consumer has exited, a producer
\* that has not yet closed the channel can always take its next step towards
\* closing it, even with the channel full: it is never blocked for good.
C15_ProducerNeverStuck ==
    (Alive /\ ctx = "done" /\ runPc \in { "returned", "failed" }
       /\ recPc \in { "start", "read", "send" }) =>
        ENABLED (recordStart \/ recordRead \/ recordSend)

(***************************************************************************)
(* C16: classification of every frame value the loop can obtain            *)
(***************************************************************************)
\* C16: in every iteration in which readNextChunk hands the loop a frame
\* value, a frame without samples included, isSilent completes without a
\* run-time fault.
C16_ClassificationCompletes ==
    [][ (runPc = "read" /\ readNextChunk(audioChan, chanClosed).ok) =>
          runPc' # "panicked"
      ]_vars

(***************************************************************************)
(* C17: the size of a captured frame                                       *)
(***************************************************************************)
\* C17: for a frame duration of fnIn milliseconds, a whole number of seconds
\* or not, recordLoop reads frames of sampleRate * channels * 2 bytes per
\* second of the duration.
C17_FrameHoldsTheDuration ==
    fnOut # -1 => fnOut * 1000 = sampleRate * channels * 2 * fnIn

C19_CheckedOncePerIteration ==
    [][ /\ (runPc' = "read" /\ runPc # "read") => (runPc = "select" /\ ctx # "done")
        /\ dequeued' # dequeued =>
             /\ runPc = "read" /\ runPc' # "read"
             /\ Len(dequeued') = Len(dequeued) + 1
        /\ ObservesCancel =>
             /\ runPc' \in { "finalWait", "returned" }
             /\ phraseBuffer' = phraseBuffer
             /\ requests' \in { requests, Append(requests, phraseBuffer) }
        /\ (ctx = "done" /\ runPc \in { "select", "finalWait", "returned" }) =>
             /\ dequeued' = dequeued
             /\ SubSeq(audioChan', 1, Len(audioChan)) = audioChan
      ]_vars

\* a cancelled session has returned after receiving a frame, leaving frames
\* in the channel
C19_Witness ==
    /\ ctx = "done"
    /\ runPc = "returned"
    /\ dequeued # <<>>
    /\ audioChan # <<>>

(***************************************************************************)
(* C20: one transcription request at a time                                *)
(***************************************************************************)
\* session s is inside transcribeChunk, building its request or waiting for
\* the reply
InTranscribeChunk(s) == loops[s].pc \in { "reset", "write", "copy", "wait" }

\* session s is resetting, writing or reading wavBuffer
UsesWavBuffer(s) == loops[s].pc \in { "reset", "write", "copy" }

\* C20: whatever the presses, at most one session is building a request or
\* has one in flight, so at most one session loop works on wavBuffer.
C20_OneRequestAtATime ==
    /\ Cardinality({ s \in Sessions : InTranscribeChunk(s) }) <= 1
    /\ Cardinality({ s \in Sessions : UsesWavBuffer(s) }) <= 1

(***************************************************************************)
(* C21: the active flag                                                    *)
(***************************************************************************)
\* the session loop is running and its context is not cancelled
LoopRunsUncancelled ==
    ctx = "live" /\ runPc \in { "init", "select", "read", "flushWait" }

\* C21: as long as the process lives, isActive is true exactly when the
\* session loop the handler started is still running with its context not
\* cancelled, so that the next press starts a session when none is running.
C21_ActiveFlagAgrees == Alive => (isActive <=> LoopRunsUncancelled)

(***************************************************************************)
(* C22: the producer once the consumer has terminated                      *)
(***************************************************************************)
\* C22, for a loop that ended by itself (the cancelled session is C15): once
\* the session loop has returned an error with its context not cancelled, a
\* producer that has not yet closed the channel can always take its next
\* step: it is not left blocked on a channel that nobody receives from.
C22_ProducerOutlivesNoConsumer ==
    (Alive /\ ctx = "live" /\ runPc \in { "returned", "failed" }
       /\ recPc # "exited") =>
        ENABLED (recordRead \/ recordSend \/ recordStart)

====
